---- MODULE Spec2Model ----
(***************************************************************************)
(* Order-management API: users, tokens, orders and order items.            *)
(* State is the three database tables, the set of tokens handed out so    *)
(* far, the wall clock, and the last response sent to a client.  plain     *)
(* remembers, user by user, the password typed at signup; the program      *)
(* keeps only its digest.                                                  *)
(*                                                                         *)
(* Money is kept in whole units (the code uses floats; the sums below are  *)
(* exact).  Time is kept in ticks, TicksPerSecond ticks to the second,     *)
(* because the code truncates expiry instants to whole seconds.            *)
(***************************************************************************)
EXTENDS Integers, Sequences, FiniteSets, TLC

VARIABLES users, plain, orders, order_itens, next_iten_id, issued, now, advances, sess, resp

vars == <<users, plain, orders, order_itens, next_iten_id, issued, now, advances, sess, resp>>

(* ------------------------------ bounds -------------------------------- *)
MaxUsers == 2
MaxOrders == 2
MaxItens == 2
MaxQuantity == 1
MaxUnitPrice == 1
MaxIssues == 3
MaxAdvances == 3
MaxSessions == 2
TicksPerSecond == 2
ACCESS_TOKEN_EXPIRE_MINUTES == 1

(* ------------------------- program constants -------------------------- *)
SecondsPerMinute == 60
SecondsPerDay == 86400
RefreshDays == 7
PasswordCut == 72

(* ------------------------------ helpers ------------------------------- *)
NULL == "null"

\* Python truthiness of an Optional[bool] column / field.
Truthy(b) == b = "true"

\* A password of n equal characters c.
Pw(n, c) == [i \in 1..n |-> c]

\* password[:72]
Cut72(pw) == IF Len(pw) <= PasswordCut THEN pw ELSE SubSeq(pw, 1, PasswordCut)

\* argon2_context.hash: salted one-way digest, stands for "the digest of pw".
HashPassword(pw) == [alg |-> "argon2", of |-> pw]

\* argon2_context.verify
VerifyPassword(pw, digest) == digest.alg = "argon2" /\ digest.of = pw

\* str(user_id) and int(sub) for the ids the model reaches.
Digits == <<"1", "2", "3", "4", "5", "6", "7", "8", "9">>
StrOf(n) == Digits[n]
IntOf(s) == CHOOSE n \in 1..Len(Digits) : Digits[n] = s

\* The request carries no Authorization header.
NoToken == [sub |-> "", exp |-> 0, sig |-> "missing"]
\* A bearer string that is no JWT.
MalformedToken == [sub |-> "", exp |-> 0, sig |-> "malformed"]

AccessLifetime == ACCESS_TOKEN_EXPIRE_MINUTES * SecondsPerMinute * TicksPerSecond
RefreshLifetime == RefreshDays * SecondsPerDay * TicksPerSecond

\* int(datetime.timestamp()): the whole second an instant falls in.
WholeSecond(t) == t \div TicksPerSecond

\* A well-formed token signed with another key, never expiring in the model.
ForgedToken(uid) ==
    [sub |-> StrOf(uid), exp |-> WholeSecond(4 * RefreshLifetime), sig |-> "bad"]

\* get_token: a JWT for user_id expiring token_time from now.
get_token_round_up(user_id, token_time) ==
    [sub |-> StrOf(user_id), exp |-> WholeSecond(now + token_time) + 1, sig |-> "ok"]
get_token(user_id, token_time) ==
    [sub |-> StrOf(user_id), exp |-> WholeSecond(now + token_time), sig |-> "ok"]

\* jwt.decode: signature, then exp against the current whole second.
JwtDecodes(token) ==
    /\ token.sig = "ok"
    /\ ~(token.exp < WholeSecond(now))

\* verify_token: the id of the authenticated user, 0 when the request is
\* rejected with 401.
verify_token_no_signature(token) ==
    IF token.sig \in {"missing", "malformed"} \/ token.exp < WholeSecond(now) THEN 0
    ELSE IF IntOf(token.sub) \in DOMAIN users THEN IntOf(token.sub) ELSE 0
verify_token(token) ==
    IF ~JwtDecodes(token) THEN 0
    ELSE IF IntOf(token.sub) \in DOMAIN users THEN IntOf(token.sub) ELSE 0

\* The tokens a client can present: none, junk, a forgery, or one it was given.
Jwts == {i.jwt : i \in issued}
TokenInputs == {NoToken, MalformedToken} \cup {ForgedToken(1)} \cup Jwts

\* session.query(User).filter(User.email == email).first()
UserByEmail_never_found(email) == 0
UserByEmail(email) ==
    IF \E u \in DOMAIN users : users[u].email = email
    THEN CHOOSE u \in DOMAIN users :
            /\ users[u].email = email
            /\ \A v \in DOMAIN users : users[v].email = email => u <= v
    ELSE 0

\* session.query(User).filter(User.admin == True).first()
AdminExists == \E u \in DOMAIN users : users[u].admin = "true"

\* User(name, email, password, activated, admin)
User(email, digest, admin) == [email |-> email, password |-> digest, admin |-> admin]

(* ------------------------------- state -------------------------------- *)
\* Each request gets a database session of its own from get_session; a
\* session is idle or holds the flushed, uncommitted work of one request.
Sessions == 1..MaxSessions
Idle == [pc |-> "idle"]

Init ==
    /\ users = <<>>
    /\ plain = <<>>
    /\ orders = <<>>
    /\ order_itens = {}
    /\ next_iten_id = 1
    /\ issued = {}
    /\ now = 0
    /\ advances = 0
    /\ sess = [s \in Sessions |-> Idle]
    /\ resp = [op |-> "none", status |-> 0]

DbUnchanged == UNCHANGED <<users, plain, orders, order_itens, next_iten_id>>

(* ----------------------------- auth router ---------------------------- *)
\* POST /auth/signup
signup(token, email, password, admin) ==
    LET current_user == verify_token(token)
        r == [op |-> "signup", status |-> 0, at |-> now, tok |-> token,
              pid |-> current_user, email |-> email, password |-> password,
              admin |-> admin, admin_existed |-> AdminExists,
              email_existed |-> UserByEmail(email) # 0]
    IN  /\ IF current_user = 0 THEN
                /\ resp' = [r EXCEPT !.status = 401]
                /\ UNCHANGED <<users, plain>>
            ELSE IF UserByEmail(email) # 0 THEN
                /\ resp' = [r EXCEPT !.status = 400]
                /\ UNCHANGED <<users, plain>>
            ELSE IF AdminExists /\ Truthy(admin) /\ ~Truthy(users[current_user].admin) THEN
                /\ resp' = [r EXCEPT !.status = 403]
                /\ UNCHANGED <<users, plain>>
            ELSE
                /\ users' = Append(users, User(email, HashPassword(password), admin))
                /\ plain' = Append(plain, password)
                /\ resp' = [r EXCEPT !.status = 200]
        /\ UNCHANGED <<orders, order_itens, next_iten_id, issued, now, advances, sess>>

\* POST /auth/signup_admin (the second function named signup)
signup_admin(email, password, admin) ==
    LET r == [op |-> "signup_admin", status |-> 0, at |-> now, tok |-> NoToken,
              pid |-> 0, email |-> email, password |-> password,
              admin |-> admin, admin_existed |-> AdminExists,
              email_existed |-> UserByEmail(email) # 0]
    IN  /\ IF UserByEmail(email) # 0 THEN
                /\ resp' = [r EXCEPT !.status = 400]
                /\ UNCHANGED <<users, plain>>
            ELSE
                /\ users' = Append(users, User(email, HashPassword(Cut72(password)), admin))
                /\ plain' = Append(plain, password)
                /\ resp' = [r EXCEPT !.status = 200]
        /\ UNCHANGED <<orders, order_itens, next_iten_id, issued, now, advances, sess>>

\* authenticate_user: the id of the user, 0 for False.
authenticate_user(email, password) ==
    LET user == UserByEmail(email)
    IN  IF user = 0 THEN 0
        ELSE IF ~VerifyPassword(password, users[user].password) THEN 0
        ELSE user

\* What the model remembers of a token it handed out.
Issue(jwt, life, kind) == [jwt |-> jwt, iat |-> now, life |-> life, kind |-> kind]

\* POST /auth/login
login(email, password) ==
    LET user == authenticate_user(email, password)
        r == [op |-> "login", status |-> 0, at |-> now, email |-> email,
              password |-> password, access_token |-> NoToken, refresh_token |-> NoToken]
    IN  /\ IF user = 0 THEN
                /\ resp' = [r EXCEPT !.status = 400]
                /\ UNCHANGED issued
            ELSE
                LET access_token == get_token(user, AccessLifetime)
                    refresh_token == get_token(user, RefreshLifetime)
                IN  /\ issued' = issued \cup {Issue(access_token, AccessLifetime, "access"),
                                               Issue(refresh_token, RefreshLifetime, "refresh")}
                    /\ resp' = [r EXCEPT !.status = 200,
                                         !.access_token = access_token,
                                         !.refresh_token = refresh_token]
        /\ DbUnchanged
        /\ UNCHANGED <<now, advances, sess>>

\* POST /auth/login_form
login_form(username, password) ==
    LET user == authenticate_user(username, password)
        r == [op |-> "login_form", status |-> 0, at |-> now, email |-> username,
              password |-> password, access_token |-> NoToken]
    IN  /\ IF user = 0 THEN
                /\ resp' = [r EXCEPT !.status = 400]
                /\ UNCHANGED issued
            ELSE
                LET access_token == get_token(user, AccessLifetime)
                IN  /\ issued' = issued \cup {Issue(access_token, AccessLifetime, "access")}
                    /\ resp' = [r EXCEPT !.status = 200, !.access_token = access_token]
        /\ DbUnchanged
        /\ UNCHANGED <<now, advances, sess>>

\* GET /auth/refresh
user_refresh_token_refresh_only(token) ==
    LET user == IF \E i \in issued : i.jwt = token /\ i.kind = "refresh"
                THEN verify_token(token) ELSE 0
        r == [op |-> "refresh", status |-> 0, at |-> now, tok |-> token, pid |-> user,
              access_token |-> NoToken]
    IN  /\ IF user = 0 THEN
                /\ resp' = [r EXCEPT !.status = 401]
                /\ UNCHANGED issued
            ELSE
                LET access_token == get_token(user, AccessLifetime)
                IN  /\ issued' = issued \cup {Issue(access_token, AccessLifetime, "access")}
                    /\ resp' = [r EXCEPT !.status = 200, !.access_token = access_token]
        /\ DbUnchanged
        /\ UNCHANGED <<now, advances, sess>>
user_refresh_token(token) ==
    LET user == verify_token(token)
        r == [op |-> "refresh", status |-> 0, at |-> now, tok |-> token, pid |-> user,
              access_token |-> NoToken]
    IN  /\ IF user = 0 THEN
                /\ resp' = [r EXCEPT !.status = 401]
                /\ UNCHANGED issued
            ELSE
                LET access_token == get_token(user, AccessLifetime)
                IN  /\ issued' = issued \cup {Issue(access_token, AccessLifetime, "access")}
                    /\ resp' = [r EXCEPT !.status = 200, !.access_token = access_token]
        /\ DbUnchanged
        /\ UNCHANGED <<now, advances, sess>>

(* ----------------------------- order router --------------------------- *)
\* Order(user): status "pending", price 0.
Order(user) == [user |-> user, status |-> "pending", price |-> 0]

\* OrderItens(quantity, flavor, size, unit_price, order)
OrderItens(id, quantity, unit_price, order) ==
    [id |-> id, quantity |-> quantity, unit_price |-> unit_price, order |-> order]

\* No order in the response body.
NoOrder == [user |-> 0, status |-> "", price |-> 0]

\* order.itens: the rows of order_itens whose foreign key is the order.
ItensOf(order_id, itens) == {i \in itens : i.order = order_id}

RECURSIVE SumPrice(_)
SumPrice(S) ==
    IF S = {} THEN 0
    ELSE LET i == CHOOSE x \in S : TRUE
         IN  i.unit_price * i.quantity + SumPrice(S \ {i})

\* Order.calculate_price over the rows the session sees after its autoflush.
calculate_price_all_rows(order_id, itens) == SumPrice(itens)
calculate_price(order_id, itens) == SumPrice(ItensOf(order_id, itens))

\* not user.admin and user.id != owner
DeniedOwnerOnly(user, owner) == user # owner
Denied(user, owner) == ~Truthy(users[user].admin) /\ user # owner

OrderResp(op, token, user, order_id) ==
    [op |-> op, status |-> 0, at |-> now, tok |-> token, pid |-> user,
     oid |-> order_id, order |-> NoOrder, count |-> 0]

\* GET /orders/
orders_home(token) ==
    LET user == verify_token(token)
        r == OrderResp("orders", token, user, 0)
    IN  /\ resp' = [r EXCEPT !.status = IF user = 0 THEN 401 ELSE 200]
        /\ DbUnchanged
        /\ UNCHANGED <<issued, now, advances, sess>>

\* POST /orders/order
order(token, user_id) ==
    LET user == verify_token(token)
        r == OrderResp("order", token, user, 0)
    IN  /\ IF user = 0 THEN
                /\ resp' = [r EXCEPT !.status = 401]
                /\ UNCHANGED orders
            ELSE IF Denied(user, user_id) THEN
                /\ resp' = [r EXCEPT !.status = 403]
                /\ UNCHANGED orders
            ELSE
                \/ /\ orders' = Append(orders, Order(user_id))
                   /\ resp' = [r EXCEPT !.status = 200, !.oid = Len(orders) + 1,
                                        !.order = Order(user_id)]
                \* the foreign key orders.user, where the database enforces it
                \/ /\ user_id \notin DOMAIN users
                   /\ resp' = [r EXCEPT !.status = 500]
                   /\ UNCHANGED orders
        /\ UNCHANGED <<users, plain, order_itens, next_iten_id, issued, now, advances, sess>>

\* GET /orders/list
list_orders_owner_fallback(token) ==
    LET user == verify_token(token)
        r == OrderResp("list_orders", token, user, 0)
    IN  /\ IF user = 0 THEN resp' = [r EXCEPT !.status = 401]
            ELSE IF ~Truthy(users[user].admin)
                    /\ \E o \in DOMAIN orders : orders[o].user # user
                 THEN resp' = [r EXCEPT !.status = 403]
            ELSE resp' = [r EXCEPT !.status = 200, !.count = Len(orders)]
        /\ DbUnchanged
        /\ UNCHANGED <<issued, now, advances, sess>>
list_orders(token) ==
    LET user == verify_token(token)
        r == OrderResp("list_orders", token, user, 0)
    IN  /\ IF user = 0 THEN resp' = [r EXCEPT !.status = 401]
            ELSE IF ~Truthy(users[user].admin) THEN resp' = [r EXCEPT !.status = 403]
            ELSE resp' = [r EXCEPT !.status = 200, !.count = Len(orders)]
        /\ DbUnchanged
        /\ UNCHANGED <<issued, now, advances, sess>>

\* GET /orders/list/orders_user/{user_id}
list_user_orders(token, user_id) ==
    LET user == verify_token(token)
        r == OrderResp("list_user_orders", token, user, 0)
    IN  /\ IF user = 0 THEN resp' = [r EXCEPT !.status = 401]
            ELSE IF Denied(user, user_id) THEN resp' = [r EXCEPT !.status = 403]
            ELSE resp' = [r EXCEPT !.status = 200,
                            !.count = Cardinality({o \in DOMAIN orders : orders[o].user = user_id})]
        /\ DbUnchanged
        /\ UNCHANGED <<issued, now, advances, sess>>

\* GET /orders/order/{order_id}
get_order(token, order_id) ==
    LET user == verify_token(token)
        r == OrderResp("get_order", token, user, order_id)
    IN  /\ IF user = 0 THEN resp' = [r EXCEPT !.status = 401]
            ELSE IF order_id \notin DOMAIN orders THEN resp' = [r EXCEPT !.status = 400]
            ELSE IF Denied(user, orders[order_id].user) THEN resp' = [r EXCEPT !.status = 403]
            ELSE resp' = [r EXCEPT !.status = 200, !.order = orders[order_id],
                            !.count = Cardinality(ItensOf(order_id, order_itens))]
        /\ DbUnchanged
        /\ UNCHANGED <<issued, now, advances, sess>>

\* POST /orders/order/add_item/{order_id}
add_iten_order_pending_only(token, order_id, quantity, unit_price) ==
    LET user == verify_token(token)
        r == OrderResp("add_item", token, user, order_id)
                @@ [quantity |-> quantity, unit_price |-> unit_price]
    IN  /\ IF user = 0 THEN
                /\ resp' = [r EXCEPT !.status = 401]
                /\ UNCHANGED <<orders, order_itens, next_iten_id>>
            ELSE IF order_id \notin DOMAIN orders \/ orders[order_id].status # "pending" THEN
                /\ resp' = [r EXCEPT !.status = 400]
                /\ UNCHANGED <<orders, order_itens, next_iten_id>>
            ELSE IF Denied(user, orders[order_id].user) THEN
                /\ resp' = [r EXCEPT !.status = 403]
                /\ UNCHANGED <<orders, order_itens, next_iten_id>>
            ELSE
                LET order_item == OrderItens(next_iten_id, quantity, unit_price, order_id)
                    itens == order_itens \cup {order_item}
                    price == calculate_price(order_id, itens)
                IN  /\ order_itens' = itens
                    /\ next_iten_id' = next_iten_id + 1
                    /\ orders' = [orders EXCEPT ![order_id].price = price]
                    /\ resp' = [r EXCEPT !.status = 200, !.order = orders'[order_id]]
        /\ UNCHANGED <<users, plain, issued, now, advances, sess>>
add_iten_order(token, order_id, quantity, unit_price) ==
    LET user == verify_token(token)
        r == OrderResp("add_item", token, user, order_id)
                @@ [quantity |-> quantity, unit_price |-> unit_price]
    IN  /\ IF user = 0 THEN
                /\ resp' = [r EXCEPT !.status = 401]
                /\ UNCHANGED <<orders, order_itens, next_iten_id>>
            ELSE IF order_id \notin DOMAIN orders THEN
                /\ resp' = [r EXCEPT !.status = 400]
                /\ UNCHANGED <<orders, order_itens, next_iten_id>>
            ELSE IF Denied(user, orders[order_id].user) THEN
                /\ resp' = [r EXCEPT !.status = 403]
                /\ UNCHANGED <<orders, order_itens, next_iten_id>>
            ELSE
                LET order_item == OrderItens(next_iten_id, quantity, unit_price, order_id)
                    itens == order_itens \cup {order_item}
                    price == calculate_price(order_id, itens)
                IN  /\ order_itens' = itens
                    /\ next_iten_id' = next_iten_id + 1
                    /\ orders' = [orders EXCEPT ![order_id].price = price]
                    /\ resp' = [r EXCEPT !.status = 200, !.order = orders'[order_id]]
        /\ UNCHANGED <<users, plain, issued, now, advances, sess>>

\* POST /orders/order/remove_item/{order_item_id}
remove_iten_order_delete_first(token, order_item_id) ==
    LET user == verify_token(token)
        found == {i \in order_itens : i.id = order_item_id}
        r == OrderResp("remove_item", token, user, 0)
    IN  /\ IF user = 0 THEN
                /\ resp' = [r EXCEPT !.status = 401]
                /\ UNCHANGED <<orders, order_itens>>
            ELSE IF found = {} THEN
                /\ resp' = [r EXCEPT !.status = 400]
                /\ UNCHANGED <<orders, order_itens>>
            ELSE
                LET order_item == CHOOSE i \in found : TRUE
                    order_id == order_item.order
                IN  IF Denied(user, orders[order_id].user) THEN
                        /\ resp' = [r EXCEPT !.status = 403, !.oid = order_id]
                        /\ order_itens' = order_itens \ {order_item}
                        /\ UNCHANGED orders
                    ELSE
                        LET itens == order_itens \ {order_item}
                            price == calculate_price(order_id, itens)
                        IN  /\ order_itens' = itens
                            /\ orders' = [orders EXCEPT ![order_id].price = price]
                            /\ resp' = [r EXCEPT !.status = 200, !.oid = order_id,
                                            !.order = orders'[order_id],
                                            !.count = Cardinality(ItensOf(order_id, itens))]
        /\ UNCHANGED <<users, plain, next_iten_id, issued, now, advances, sess>>
remove_iten_order(token, order_item_id) ==
    LET user == verify_token(token)
        found == {i \in order_itens : i.id = order_item_id}
        r == OrderResp("remove_item", token, user, 0)
    IN  /\ IF user = 0 THEN
                /\ resp' = [r EXCEPT !.status = 401]
                /\ UNCHANGED <<orders, order_itens>>
            ELSE IF found = {} THEN
                /\ resp' = [r EXCEPT !.status = 400]
                /\ UNCHANGED <<orders, order_itens>>
            ELSE
                LET order_item == CHOOSE i \in found : TRUE
                    order_id == order_item.order
                IN  IF Denied(user, orders[order_id].user) THEN
                        /\ resp' = [r EXCEPT !.status = 403, !.oid = order_id]
                        /\ UNCHANGED <<orders, order_itens>>
                    ELSE
                        LET itens == order_itens \ {order_item}
                            price == calculate_price(order_id, itens)
                        IN  /\ order_itens' = itens
                            /\ orders' = [orders EXCEPT ![order_id].price = price]
                            /\ resp' = [r EXCEPT !.status = 200, !.oid = order_id,
                                            !.order = orders'[order_id],
                                            !.count = Cardinality(ItensOf(order_id, itens))]
        /\ UNCHANGED <<users, plain, next_iten_id, issued, now, advances, sess>>

\* The body shared by cancel_order and complete_order.
SetStatus(op, token, order_id, status) ==
    LET user == verify_token(token)
        r == OrderResp(op, token, user, order_id)
    IN  /\ IF user = 0 THEN
                /\ resp' = [r EXCEPT !.status = 401]
                /\ UNCHANGED orders
            ELSE IF order_id \notin DOMAIN orders THEN
                /\ resp' = [r EXCEPT !.status = 400]
                /\ UNCHANGED orders
            ELSE IF Denied(user, orders[order_id].user) THEN
                /\ resp' = [r EXCEPT !.status = 403]
                /\ UNCHANGED orders
            ELSE
                /\ orders' = [orders EXCEPT ![order_id].status = status]
                /\ resp' = [r EXCEPT !.status = 200, !.order = orders'[order_id]]
        /\ UNCHANGED <<users, plain, order_itens, next_iten_id, issued, now, advances, sess>>

\* POST /orders/order/cancel/{order_id}
cancel_order(token, order_id) == SetStatus("cancel_order", token, order_id, "canceled")

\* POST /orders/order/complete/{order_id}
complete_order(token, order_id) == SetStatus("complete_order", token, order_id, "completed")

(* ------------------------ requests in parallel ------------------------ *)
\* Several server processes share one database.  Each request works in the
\* session get_session gave it: what it flushed is visible to its own queries
\* only, and session.commit() publishes it.  A handler is split where its
\* session.commit() stands: the flush step is everything before it, the
\* commit step the commit and the response.

\* add_iten_order up to order.calculate_price(): the lazy load of order.itens
\* flushes the INSERT first, so the sum is over the committed rows and the
\* session's own new row.
add_iten_order_flush(s, token, order_id, quantity, unit_price) ==
    LET user == verify_token(token)
        r == OrderResp("add_item", token, user, order_id)
                @@ [quantity |-> quantity, unit_price |-> unit_price]
    IN  /\ sess[s] = Idle
        /\ IF user = 0 THEN
                /\ resp' = [r EXCEPT !.status = 401]
                /\ UNCHANGED <<next_iten_id, sess>>
            ELSE IF order_id \notin DOMAIN orders THEN
                /\ resp' = [r EXCEPT !.status = 400]
                /\ UNCHANGED <<next_iten_id, sess>>
            ELSE IF Denied(user, orders[order_id].user) THEN
                /\ resp' = [r EXCEPT !.status = 403]
                /\ UNCHANGED <<next_iten_id, sess>>
            ELSE
                LET order_item == OrderItens(next_iten_id, quantity, unit_price, order_id)
                    price == calculate_price(order_id, order_itens \cup {order_item})
                IN  /\ next_iten_id' = next_iten_id + 1
                    /\ sess' = [sess EXCEPT ![s] =
                                    [pc |-> "flushed", op |-> "add_item", r |-> r,
                                     order_id |-> order_id, order_item |-> order_item,
                                     price |-> price]]
                    /\ UNCHANGED resp
        /\ UNCHANGED <<users, plain, orders, order_itens, issued, now, advances>>

\* session.commit() of add_iten_order and its response.
add_iten_order_commit(s) ==
    /\ sess[s] # Idle
    /\ sess[s].op = "add_item"
    /\ order_itens' = order_itens \cup {sess[s].order_item}
    /\ orders' = [orders EXCEPT ![sess[s].order_id].price = sess[s].price]
    /\ resp' = [sess[s].r EXCEPT !.status = 200, !.order = orders'[sess[s].order_id]]
    /\ sess' = [sess EXCEPT ![s] = Idle]
    /\ UNCHANGED <<users, plain, next_iten_id, issued, now, advances>>

\* The rows another session has deleted and not yet committed: a second
\* DELETE of such a row waits for that session.
PendingDeletes(s) ==
    {sess[t].order_item : t \in {t \in Sessions \ {s} :
                                    sess[t] # Idle /\ sess[t].op = "remove_item"}}

\* remove_iten_order up to order.calculate_price(): the DELETE is flushed and
\* the sum is over the committed rows less the session's own deleted row.
remove_iten_order_flush(s, token, order_item_id) ==
    LET user == verify_token(token)
        found == {i \in order_itens : i.id = order_item_id}
        r == OrderResp("remove_item", token, user, 0)
    IN  /\ sess[s] = Idle
        /\ IF user = 0 THEN
                /\ resp' = [r EXCEPT !.status = 401]
                /\ UNCHANGED sess
            ELSE IF found = {} THEN
                /\ resp' = [r EXCEPT !.status = 400]
                /\ UNCHANGED sess
            ELSE
                LET order_item == CHOOSE i \in found : TRUE
                    order_id == order_item.order
                IN  IF Denied(user, orders[order_id].user) THEN
                        /\ resp' = [r EXCEPT !.status = 403, !.oid = order_id]
                        /\ UNCHANGED sess
                    ELSE
                        LET itens == order_itens \ {order_item}
                        IN  /\ order_item \notin PendingDeletes(s)
                            /\ sess' = [sess EXCEPT ![s] =
                                    [pc |-> "flushed", op |-> "remove_item",
                                     r |-> [r EXCEPT !.oid = order_id],
                                     order_id |-> order_id, order_item |-> order_item,
                                     price |-> calculate_price(order_id, itens)]]
                            /\ UNCHANGED resp
        /\ UNCHANGED <<users, plain, orders, order_itens, next_iten_id, issued, now, advances>>

\* session.commit() of remove_iten_order and its response.
remove_iten_order_commit(s) ==
    /\ sess[s] # Idle
    /\ sess[s].op = "remove_item"
    /\ order_itens' = order_itens \ {sess[s].order_item}
    /\ orders' = [orders EXCEPT ![sess[s].order_id].price = sess[s].price]
    /\ resp' = [sess[s].r EXCEPT !.status = 200,
                    !.order = orders'[sess[s].order_id],
                    !.count = Cardinality(ItensOf(sess[s].order_id, order_itens'))]
    /\ sess' = [sess EXCEPT ![s] = Idle]
    /\ UNCHANGED <<users, plain, next_iten_id, issued, now, advances>>

\* signup up to session.add(new_user): both lookups and the hash.
signup_flush(s, token, email, password, admin) ==
    LET current_user == verify_token(token)
        r == [op |-> "signup", status |-> 0, at |-> now, tok |-> token,
              pid |-> current_user, email |-> email, password |-> password,
              admin |-> admin, admin_existed |-> AdminExists,
              email_existed |-> UserByEmail(email) # 0]
    IN  /\ sess[s] = Idle
        /\ IF current_user = 0 THEN
                /\ resp' = [r EXCEPT !.status = 401]
                /\ UNCHANGED sess
            ELSE IF UserByEmail(email) # 0 THEN
                /\ resp' = [r EXCEPT !.status = 400]
                /\ UNCHANGED sess
            ELSE IF AdminExists /\ Truthy(admin) /\ ~Truthy(users[current_user].admin) THEN
                /\ resp' = [r EXCEPT !.status = 403]
                /\ UNCHANGED sess
            ELSE
                /\ sess' = [sess EXCEPT ![s] =
                                [pc |-> "flushed", op |-> "signup", r |-> r,
                                 new_user |-> User(email, HashPassword(password), admin)]]
                /\ UNCHANGED resp
        /\ UNCHANGED <<users, plain, orders, order_itens, next_iten_id, issued, now, advances>>

\* session.commit() of signup and its response.  The users table has no
\* unique index on email, so the INSERT cannot fail on a duplicate.
signup_commit(s) ==
    /\ sess[s] # Idle
    /\ sess[s].op = "signup"
    /\ users' = Append(users, sess[s].new_user)
    /\ plain' = Append(plain, sess[s].r.password)
    /\ resp' = [sess[s].r EXCEPT !.status = 200]
    /\ sess' = [sess EXCEPT ![s] = Idle]
    /\ UNCHANGED <<orders, order_itens, next_iten_id, issued, now, advances>>

\* session.commit() raises while another request is in flight (a lock
\* timeout or a serialization failure, depending on the database behind
\* DATABASE_URL): the request ends in 500 and session.close() rolls its
\* work back.
commit_rollback(s) ==
    /\ sess[s] # Idle
    /\ \E t \in Sessions \ {s} : sess[t] # Idle
    /\ resp' = [sess[s].r EXCEPT !.status = 500]
    /\ sess' = [sess EXCEPT ![s] = Idle]
    /\ UNCHANGED <<users, plain, orders, order_itens, next_iten_id, issued, now, advances>>

(* ------------------------------- clock -------------------------------- *)
\* Time passes between requests.
Advance(d) ==
    /\ now' = now + d
    /\ advances' = advances + 1
    /\ UNCHANGED <<users, plain, orders, order_itens, next_iten_id, issued, sess, resp>>

(* --------------------------- specifications --------------------------- *)
Bools == {"true", "false"}
OptBools == {"true", "false", NULL}
PwShort == Pw(1, "p")

\* The tables and the set of tokens handed out stay within the bounds.
WithinBounds ==
    /\ Len(users') <= MaxUsers
    /\ Len(orders') <= MaxOrders
    /\ next_iten_id' <= MaxItens + 1
    /\ Cardinality(issued') <= MaxIssues
    /\ advances' <= MaxAdvances

\* Orders and their items.  One admin and one ordinary user register and log
\* in through the form; a logged-in user may ask /auth/signup for one more
\* admin; the clock stands still.
Next ==
    \/ \E a \in {<<"a@x", "true">>, <<"b@x", "false">>} :
            signup_admin(a[1], PwShort, a[2]) /\ WithinBounds
    \/ \E t \in Jwts, e \in {"a@x", "c@x"} :
            signup(t, e, PwShort, "true") /\ WithinBounds
    \/ \E e \in {"a@x", "b@x"}, pw \in {PwShort, Pw(2, "p")} :
            login_form(e, pw) /\ WithinBounds
    \/ \E t \in Jwts \cup {NoToken}, u \in 1..MaxUsers : order(t, u) /\ WithinBounds
    \/ \E t \in Jwts : list_orders(t)
    \/ \E t \in Jwts, o \in 1..MaxOrders : get_order(t, o)
    \/ \E t \in Jwts, o \in 1..MaxOrders,
          q \in 0..MaxQuantity, p \in {-1, MaxUnitPrice} :
            next_iten_id <= MaxItens /\ add_iten_order(t, o, q, p)
    \/ \E t \in Jwts \cup {NoToken}, i \in 1..MaxItens : remove_iten_order(t, i)
    \/ \E t \in Jwts, o \in 1..MaxOrders : cancel_order(t, o)
    \/ \E t \in Jwts, o \in 1..MaxOrders : complete_order(t, o)

Spec == Init /\ [][Next]_vars

\* Registration and login: both signup routes, every admin flag, passwords
\* on both sides of the cut signup_admin makes.
Passwords == {PwShort, Pw(PasswordCut, "p"), Pw(PasswordCut + 1, "p")}

NextAuth ==
    \/ \E e \in {"a@x", "b@x"}, pw \in Passwords, a \in OptBools :
            signup_admin(e, pw, a) /\ WithinBounds
    \/ \E t \in TokenInputs, e \in {"a@x", "b@x"}, pw \in Passwords, a \in OptBools :
            signup(t, e, pw, a) /\ WithinBounds
    \/ \E e \in {"a@x", "b@x"}, pw \in Passwords : login(e, pw) /\ WithinBounds

SpecAuth == Init /\ [][NextAuth]_vars

\* Tokens and time: one user, every gated route on a single order with a
\* single item, and a clock that moves by a tick, by the access lifetime or by
\* the refresh lifetime.
NextToken ==
    \/ \E a \in Bools : signup_admin("a@x", PwShort, a) /\ WithinBounds
    \/ login("a@x", PwShort) /\ WithinBounds
    \/ \E t \in TokenInputs : user_refresh_token(t) /\ WithinBounds
    \/ \E t \in TokenInputs : orders_home(t)
    \/ \E t \in TokenInputs : orders = <<>> /\ order(t, 1)
    \/ \E t \in TokenInputs : list_orders(t)
    \/ \E t \in TokenInputs : list_user_orders(t, 1)
    \/ \E t \in TokenInputs : get_order(t, 1)
    \/ \E t \in TokenInputs : next_iten_id = 1 /\ add_iten_order(t, 1, 1, 1)
    \/ \E t \in TokenInputs : remove_iten_order(t, 1)
    \/ \E t \in TokenInputs : cancel_order(t, 1)
    \/ \E t \in TokenInputs : complete_order(t, 1)
    \/ \E d \in {1, AccessLifetime, RefreshLifetime} : Advance(d) /\ WithinBounds

SpecToken == Init /\ [][NextToken]_vars

\* Requests in parallel: an admin registers, logs in and opens orders one
\* request at a time; add_item, remove_item and signup requests then run in
\* up to MaxSessions sessions at once, each flushing and committing in steps
\* of its own.  The admin's own signups may take the user table one past
\* MaxUsers.
WithinBoundsConc ==
    /\ Len(users') <= MaxUsers + 1
    /\ Len(orders') <= MaxOrders
    /\ next_iten_id' <= MaxItens + 1
    /\ Cardinality(issued') <= MaxIssues

NextConc ==
    \/ signup_admin("a@x", PwShort, "true") /\ WithinBoundsConc
    \/ login_form("a@x", PwShort) /\ WithinBoundsConc
    \/ \E t \in Jwts : order(t, 1) /\ WithinBoundsConc
    \/ \E s \in Sessions, t \in Jwts \cup {NoToken}, o \in 1..MaxOrders :
            add_iten_order_flush(s, t, o, MaxQuantity, MaxUnitPrice) /\ WithinBoundsConc
    \/ \E s \in Sessions : add_iten_order_commit(s)
    \/ \E s \in Sessions, t \in Jwts \cup {NoToken}, i \in 1..MaxItens :
            remove_iten_order_flush(s, t, i)
    \/ \E s \in Sessions : remove_iten_order_commit(s)
    \/ \E s \in Sessions, t \in Jwts \cup {NoToken} :
            signup_flush(s, t, "b@x", PwShort, "false")
    \/ \E s \in Sessions : signup_commit(s) /\ WithinBoundsConc
    \/ \E s \in Sessions : commit_rollback(s)

SpecConc == Init /\ [][NextConc]_vars

(* ------------------------------- claims ------------------------------- *)
\* The sum of quantity * unit_price over the items of one order, summed item
\* id by item id.
RECURSIVE TotalUpTo(_, _)
TotalUpTo(order_id, n) ==
    IF n = 0 THEN 0
    ELSE LET rows == {i \in order_itens : i.id = n /\ i.order = order_id}
             here == IF rows = {} THEN 0
                     ELSE LET i == CHOOSE x \in rows : TRUE IN i.quantity * i.unit_price
         IN  here + TotalUpTo(order_id, n - 1)

ItemTotal(order_id) == TotalUpTo(order_id, next_iten_id - 1)

\* C1: after any sequence of create-order, add_item and remove_item requests
\* run one at a time, every order's stored price is the sum of quantity *
\* unit_price over the items that now belong to it, and an order just created
\* has price 0 and no items.
C1_PriceIsSumOfItens ==
    /\ \A o \in DOMAIN orders : orders[o].price = ItemTotal(o)
    /\ (resp.op = "order" /\ resp.status = 200) =>
            /\ orders[resp.oid].price = 0
            /\ ItensOf(resp.oid, order_itens) = {}

\* An item was removed from the store and an order with a non-zero price
\* still has an item.
C1_Witness ==
    /\ resp.op = "remove_item" /\ resp.status = 200
    /\ \E i \in order_itens : orders[i.order].price # 0

OwnerGatedOps == {"get_order", "add_item", "remove_item", "cancel_order", "complete_order"}

\* C4: on an existing order, get_order, add_item, remove_item, cancel_order
\* and complete_order succeed for an authenticated principal who is an admin or
\* the order's owner, and otherwise fail with 403, returning no order data and
\* leaving orders and items as they were.
C4_OwnerOrAdmin ==
    [][ (resp'.op \in OwnerGatedOps /\ resp'.pid # 0 /\ resp'.oid \in DOMAIN orders)
        => LET allowed == users[resp'.pid].admin = "true"
                            \/ resp'.pid = orders[resp'.oid].user
           IN  /\ allowed => resp'.status = 200
               /\ ~allowed => /\ resp'.status = 403
                              /\ resp'.order = NoOrder
                              /\ orders' = orders
                              /\ order_itens' = order_itens ]_vars

\* An ordinary user was refused the removal of an item of someone else's order.
C4_Witness ==
    /\ resp.op = "remove_item" /\ resp.status = 403
    /\ users[resp.pid].admin # "true"
    /\ orders[resp.oid].user # resp.pid

Terminal == {"canceled", "completed"}

\* C5: an order starts as pending and its status changes only from pending to
\* canceled or from pending to completed; once canceled or completed it never
\* changes again.
C5_StatusMachine ==
    [][ /\ \A o \in DOMAIN orders' :
            o \notin DOMAIN orders => orders'[o].status = "pending"
        /\ \A o \in DOMAIN orders :
            orders'[o].status # orders[o].status
                => orders[o].status = "pending" /\ orders'[o].status \in Terminal ]_vars

\* C6: add_item refuses a quantity that is not positive or a negative
\* unit_price and leaves the order alone, so that no stored item has a
\* quantity <= 0 or a unit_price < 0 and no order has a negative price.
C6_ItemValidation ==
    /\ (resp.op = "add_item" /\ (resp.quantity <= 0 \/ resp.unit_price < 0))
            => resp.status # 200
    /\ \A i \in order_itens : i.quantity > 0 /\ i.unit_price >= 0
    /\ \A o \in DOMAIN orders : orders[o].price >= 0

Signups == {"signup", "signup_admin"}

\* The request carried a principal who is an admin.
AdminPrincipal(r) == r.pid # 0 /\ users[r.pid].admin = "true"

\* C2: a signup on either route creates an admin=true user only when no admin
\* existed or the request carried an admin principal; an admin=true signup
\* made while an admin exists and without an admin principal gets 403 and
\* creates no user.
C2_AdminSignupGuarded ==
    /\ (resp.op \in Signups /\ resp.status = 200 /\ resp.admin = "true")
            => (~resp.admin_existed \/ AdminPrincipal(resp))
    /\ (resp.op \in Signups /\ resp.admin = "true" /\ resp.admin_existed
            /\ ~resp.email_existed /\ ~AdminPrincipal(resp))
            => resp.status = 403

\* C3: where no admin exists, POST /auth/signup with admin=true, a fresh email
\* and no token succeeds and creates the first admin user.
C3_BootstrapWithoutToken ==
    (resp.op = "signup" /\ resp.tok = NoToken /\ resp.admin = "true"
        /\ ~resp.admin_existed /\ ~resp.email_existed)
        => /\ resp.status = 200
           /\ users # <<>>
           /\ users[Len(users)].email = resp.email
           /\ users[Len(users)].admin = "true"

\* C7: for a user registered on either signup route with password p, login
\* with the user's email and p succeeds and returns an access token and a
\* refresh token; login with that email and another password fails with 400
\* and returns no token.
C7_LoginRoundTrip ==
    \A u \in DOMAIN users :
        (resp.op = "login" /\ resp.email = users[u].email)
            => IF resp.password = plain[u]
               THEN /\ resp.status = 200
                    /\ resp.access_token.sig = "ok"
                    /\ resp.refresh_token.sig = "ok"
               ELSE /\ resp.status = 400
                    /\ resp.access_token = NoToken
                    /\ resp.refresh_token = NoToken

GatedOps == {"orders", "order", "list_orders", "list_user_orders", "get_order",
             "add_item", "remove_item", "cancel_order", "complete_order", "refresh"}

\* The last response answers a request that presented the issued token i.
Presented(i) == resp.op \in GatedOps /\ resp.tok = i.jwt

\* The lifetimes login gives its two tokens.
LoginLifetimes ==
    /\ \A i \in issued :
        i.life = IF i.kind = "access"
                 THEN ACCESS_TOKEN_EXPIRE_MINUTES * SecondsPerMinute * TicksPerSecond
                 ELSE RefreshDays * SecondsPerDay * TicksPerSecond
    /\ (resp.op = "login" /\ resp.status = 200)
        => /\ \E i \in issued : i.jwt = resp.access_token /\ i.iat = resp.at
                                    /\ i.kind = "access"
           /\ \E i \in issued : i.jwt = resp.refresh_token /\ i.iat = resp.at
                                    /\ i.kind = "refresh"

\* C8 as stated: a token issued at t with lifetime L is accepted at every time
\* before t + L and rejected with 401 at every time after t + L; login's
\* access token has L = the configured minutes, its refresh token L = 7 days.
C8_ExpiryExact ==
    /\ LoginLifetimes
    /\ \A i \in issued :
        Presented(i) =>
            /\ resp.at < i.iat + i.life => resp.status # 401
            /\ resp.at > i.iat + i.life => resp.status = 401

\* C8 amended: accepted at every time before t + L, rejected with 401 at every
\* time one second or more after t + L (the expiry instant is cut to a whole
\* second and compared with the current whole second).
C8_ExpiryWithinASecond ==
    /\ LoginLifetimes
    /\ \A i \in issued :
        Presented(i) =>
            /\ resp.at < i.iat + i.life => resp.status # 401
            /\ resp.at >= i.iat + i.life + TicksPerSecond => resp.status = 401

\* A refresh token from login was turned down one second after its seven days.
C8_Witness ==
    \E i \in issued :
        /\ i.kind = "refresh" /\ Presented(i)
        /\ resp.at = i.iat + i.life + TicksPerSecond
        /\ resp.status = 401

\* What makes verify_token turn a token presented at time t down.
Unacceptable(token, t) ==
    \/ token.sig # "ok"
    \/ token.exp < WholeSecond(t)
    \/ \A u \in DOMAIN users : StrOf(u) # token.sub

C11_ListOrdersAdminOnly ==
    (resp.op = "list_orders" /\ resp.pid # 0)
        => IF users[resp.pid].admin = "true"
           THEN resp.status = 200 /\ resp.count = Len(orders)
           ELSE resp.status = 403 /\ resp.count = 0

\* An ordinary user who owns every stored order was refused the list.
C11_Witness ==
    /\ resp.op = "list_orders" /\ resp.status = 403
    /\ orders # <<>>
    /\ \A o \in DOMAIN orders : orders[o].user = resp.pid

Rejections == {400, 401, 403}

\* C14: a request answered 400, 401 or 403 leaves users, orders and order
\* items exactly as they were: nothing is added, removed or modified, no
\* status and no price changes.
C14_RejectionChangesNothing ==
    [][ resp'.status \in Rejections
            => /\ users' = users
               /\ orders' = orders
               /\ order_itens' = order_itens ]_vars

\* /auth/signup refused an ordinary user a new admin while orders and items
\* were stored.
C14_Witness ==
    /\ resp.op = "signup" /\ resp.status = 403
    /\ orders # <<>>
    /\ order_itens # {}

\* C16: add_item and remove_item do not look at the order's status: for the
\* owner or an admin they succeed on a canceled or completed order as on a
\* pending one, change its item set and price and leave its status alone.
C16_ItemsIgnoreStatus ==
    [][ \A o \in DOMAIN orders :
        (resp'.op \in {"add_item", "remove_item"} /\ resp'.pid # 0 /\ resp'.oid = o
            /\ (users[resp'.pid].admin = "true" \/ resp'.pid = orders[o].user))
        => /\ resp'.status = 200
           /\ orders'[o].status = orders[o].status
           /\ ItensOf(o, order_itens') # ItensOf(o, order_itens)
           /\ orders'[o].price = ItemTotal(o)' ]_vars

\* An item was added to an order that is canceled or completed and changed
\* its price.
C16_Witness ==
    /\ resp.op = "add_item" /\ resp.status = 200
    /\ orders[resp.oid].status \in Terminal
    /\ orders[resp.oid].price # 0

\* C15: validation does not tell token kinds apart.  Any token the program
\* issued, access or refresh, from login or from refresh, authenticates its
\* user on every protected route until its whole-second expiry; /auth/refresh
\* takes an access token too and answers with a fresh access token for the
\* same user that is valid at once and expires a full access lifetime later,
\* so refreshing before each expiry keeps the holder authenticated without a
\* refresh token or credentials.
C15_KindsInterchangeable ==
    /\ \A i \in issued :
        Presented(i) =>
            /\ resp.status = 401 <=> i.jwt.exp < WholeSecond(resp.at)
            /\ resp.status # 401 => StrOf(resp.pid) = i.jwt.sub
    /\ (resp.op = "refresh" /\ resp.status = 200) =>
            /\ resp.access_token.sig = "ok"
            /\ resp.access_token.sub = resp.tok.sub
            /\ resp.access_token.exp =
                    WholeSecond(resp.at + ACCESS_TOKEN_EXPIRE_MINUTES
                                            * SecondsPerMinute * TicksPerSecond)
            /\ ~(resp.access_token.exp < WholeSecond(resp.at))
            /\ \A i \in issued :
                    (i.jwt = resp.tok /\ i.kind = "access")
                        => resp.access_token.exp >= resp.tok.exp
            /\ \E i \in issued : i.jwt = resp.access_token /\ i.kind = "access"

\* /auth/refresh took an access token, some time after it was issued, and
\* answered with an access token that outlives it.
C15_Witness ==
    /\ resp.op = "refresh" /\ resp.status = 200
    /\ \E i \in issued : i.jwt = resp.tok /\ i.kind = "access" /\ i.iat < resp.at
    /\ resp.access_token.exp > resp.tok.exp

\* Every request that began has committed or was rolled back.
AllCommitted == \A s \in Sessions : sess[s] = Idle

\* C12: when add_item and remove_item requests on one order overlap, each in a
\* session of its own, then once all of them have committed the order's
\* stored price is the sum of quantity * unit_price over the items that
\* belong to it.
C12_NoLostPriceUpdate ==
    AllCommitted => \A o \in DOMAIN orders : orders[o].price = ItemTotal(o)

\* C13: when signup requests with one email overlap, each in a session of its
\* own, then once all of them have committed at most one stored user has that
\* email.
C13_OneSignupPerEmail ==
    AllCommitted =>
        \A e \in {users[u].email : u \in DOMAIN users} :
            Cardinality({u \in DOMAIN users : users[u].email = e}) = 1

====
